---- MODULE Spec2Model ----
(***************************************************************************)
(* Poll-App backend (src/server.js): the Express handlers POST /api/polls  *)
(* and PATCH /api/polls/:id/vote over the Mongoose model Poll.             *)
(*                                                                         *)
(* JavaScript strings are sequences of one-character strings, so that      *)
(* trim() and length are computed, not assumed.  Times are integers.       *)
(* A handler runs from one await to the next without interruption; the     *)
(* steps of different requests interleave at the awaits.                   *)
(***************************************************************************)
EXTENDS Integers, Sequences, FiniteSets, TLC

VARIABLES
    polls,       \* the polls collection, in insertion order; a poll's _id is its index
    now,         \* the value new Date() returns
    req,         \* the vote requests: each one's position in the handler and its locals
    resp,        \* the last response sent, with the request it answers
    acked        \* per option _id, how many 200 responses answered a vote selecting it

vars == <<polls, now, req, resp, acked>>

----------------------------------------------------------------------------
(* Bounds of the model *)

MaxPolls == 2       \* polls the collection may hold
NumReq == 2         \* vote requests in a behaviour
MaxTime == 1        \* the clock runs 0..MaxTime
MaxOptsIn == 3      \* entries of the options array of a creation request
MaxSel == 2         \* entries of the optionIds array of a vote request

Requests == 1..NumReq
Times == 0..MaxTime

----------------------------------------------------------------------------
(* JavaScript values and string operations *)

WS == " "

RECURSIVE TrimStart(_)
TrimStart(s) ==
    IF s # <<>> /\ Head(s) = WS THEN TrimStart(Tail(s)) ELSE s

RECURSIVE TrimEnd(_)
TrimEnd(s) ==
    IF s # <<>> /\ s[Len(s)] = WS THEN TrimEnd(SubSeq(s, 1, Len(s) - 1)) ELSE s

\* String.prototype.trim
Trim(s) == TrimEnd(TrimStart(s))

\* A JSON value as far as the handlers look at it: its type t, for a string
\* its characters s, for an object the type f of its text field and, when
\* that is a string, its characters s.
JStr(s) == [t |-> "string", f |-> "none", s |-> s]
JObjText(s) == [t |-> "object", f |-> "string", s |-> s]
JObjNoText == [t |-> "object", f |-> "undefined", s |-> <<>>]
JObjNumText == [t |-> "object", f |-> "number", s |-> <<>>]
JNull == [t |-> "null", f |-> "none", s |-> <<>>]
JNum == [t |-> "number", f |-> "none", s |-> <<>>]

\* o => (typeof o === 'string' ? o : (o?.text ?? ''))  followed by  s => s.trim():
\* a text field that is neither a string nor nullish has no trim method.
TrimThrows(o) == o.t = "object" /\ o.f = "number"

OptionText(o) ==
    IF o.t = "string" THEN o.s
    ELSE IF o.t = "object" /\ o.f = "string" THEN o.s
    ELSE <<>>

RECURSIVE NormOptions(_)
NormOptions(options) ==
    IF options = <<>> THEN <<>>
    ELSE LET s == Trim(OptionText(Head(options)))
         IN  IF Len(s) > 0 THEN <<s>> \o NormOptions(Tail(options))
             ELSE NormOptions(Tail(options))

\* !!multipleChoice
Truthy(v) == v \in {"true", "nonEmptyString"}

----------------------------------------------------------------------------
(* The Poll model *)

\* OptionSchema has _id: true: every option gets an ObjectId of its own.
OptId(pollId, i) == pollId * 10 + i

NoDate == <<>>

\* Poll.create: the document as inserted.  votes defaults to 0, the version
\* key __v (schema default) starts at 0.
NewPoll(pollId, question, normOptions, multipleChoice, closesAt) ==
    [ question |-> Trim(question),
      options |-> [i \in 1..Len(normOptions) |->
                     [id |-> OptId(pollId, i), text |-> normOptions[i], votes |-> 0]],
      multipleChoice |-> multipleChoice,
      closesAt |-> closesAt,
      v |-> 0 ]

\* PollSchema's validators on a document about to be inserted.
SchemaValid(doc) ==
    /\ Len(doc.question) > 0
    /\ Len(doc.options) >= 2
    /\ \A i \in 1..Len(doc.options) : Len(doc.options[i].text) > 0

NoResp == [op |-> "none", status |-> 0, error |-> "none", body |-> <<>>, doc |-> <<>>]

Resp(op, status, error) == [NoResp EXCEPT !.op = op, !.status = status, !.error = error]

\* POST /api/polls, as a function of the request body and the _id the new
\* document would get: the response and the document inserted (if any).
CreateResult(body, pollId) ==
    LET question == IF body.question.t = "string" THEN body.question.s ELSE <<>>
        options == IF body.options.isArray THEN body.options.items ELSE <<>>
    IN  IF \E i \in 1..Len(options) : TrimThrows(options[i])
        THEN [status |-> 500, error |-> "ServerError", doc |-> <<>>]
        ELSE IF Len(Trim(question)) < 5
        THEN [status |-> 400, error |-> "InvalidQuestion", doc |-> <<>>]
        ELSE IF Len(NormOptions(options)) < 2
        THEN [status |-> 400, error |-> "InsufficientOptions", doc |-> <<>>]
        ELSE IF body.closesAt.kind = "invalid"
        THEN [status |-> 400, error |-> "ValidationError", doc |-> <<>>]
        ELSE LET doc == NewPoll(pollId, question, NormOptions(options),
                                Truthy(body.multipleChoice),
                                IF body.closesAt.kind = "date"
                                THEN <<body.closesAt.t>> ELSE NoDate)
             IN  IF SchemaValid(doc)
                 THEN [status |-> 201, error |-> "none", doc |-> <<doc>>]
                 ELSE [status |-> 400, error |-> "ValidationError", doc |-> <<>>]

\* The handler of POST /api/polls.
CreatePoll(body) ==
    /\ Len(polls) < MaxPolls
    /\ LET r == CreateResult(body, Len(polls) + 1)
       IN  /\ polls' = polls \o r.doc
           /\ resp' = [Resp("create", r.status, r.error) EXCEPT
                           !.body = <<body>>, !.doc = r.doc]
    /\ UNCHANGED <<now, req, acked>>

----------------------------------------------------------------------------
(* PATCH /api/polls/:id/vote *)

\* req.params.id: 0 stands for a string that is no ObjectId, any other
\* value for a well-formed one; it names a stored poll when it is an index
\* of the collection.
MalformedId == 0
PollIdParams == 0..(MaxPolls + 1)

\* An identifier that is the _id of no option.
UnknownId == 0

IdleReq ==
    [pc |-> "idle", id |-> 0, isArray |-> FALSE, optionIds |-> <<>>,
     doc |-> <<>>, dirty |-> FALSE]

DoneReq == [IdleReq EXCEPT !.pc = "done"]

\* Request r is answered: res.status(status).json(...), or the rejection.
Respond(r, status, error) ==
    /\ req' = [req EXCEPT ![r] = DoneReq]
    /\ resp' = [Resp("vote", status, error) EXCEPT
                   !.body = <<[id |-> req[r].id, isArray |-> req[r].isArray,
                               optionIds |-> req[r].optionIds]>>]

\* What the client sees when the handler's promise rejects: the handler has
\* no try/catch, so nothing is sent by it (0); an Express that forwards the
\* rejection reaches the fallback error handler (500).
RejectionStatus == {0, 500}

\* !Array.isArray(optionIds) || optionIds.length < 1
SelectionInvalid(r) == ~r.isArray \/ Len(r.optionIds) < 1

\* Closed with the comparison turned round.
ClosedReversed(doc, t) == doc.closesAt # NoDate /\ t < doc.closesAt[1]

\* poll.closesAt && new Date() > poll.closesAt
Closed(doc, t) == doc.closesAt # NoDate /\ t > doc.closesAt[1]

\* TooMany counting the distinct identifiers instead of the entries.
TooManyDistinct(doc, optionIds) ==
    ~doc.multipleChoice /\ Cardinality({optionIds[i] : i \in 1..Len(optionIds)}) > 1

\* !poll.multipleChoice && optionIds.length > 1
TooMany(doc, optionIds) == ~doc.multipleChoice /\ Len(optionIds) > 1

\* new Set(optionIds)
OptSet(optionIds) == {optionIds[i] : i \in 1..Len(optionIds)}

\* Voted without the membership test.
VotedAll(options, optSet) ==
    [i \in 1..Len(options) |-> [options[i] EXCEPT !.votes = @ + 1]]

\* Voted with filter in place of map: unselected options are dropped.
VotedFilter(options, optSet) ==
    LET sel == SelectSeq(options, LAMBDA o : o.id \in optSet)
    IN  [i \in 1..Len(sel) |-> [sel[i] EXCEPT !.votes = @ + 1]]

\* poll.options.map(o => ({...o.toObject(), votes: optSet.has(String(o._id)) ? o.votes + 1 : o.votes}))
Voted(options, optSet) ==
    [i \in 1..Len(options) |->
        [options[i] EXCEPT !.votes = IF options[i].id \in optSet THEN @ + 1 ELSE @]]

\* Rejection with the two early returns exchanged.
CardinalityFirst(doc, optionIds, t) ==
    IF TooMany(doc, optionIds) THEN "CardinalityViolation"
    ELSE IF Closed(doc, t) THEN "PollClosed"
    ELSE "none"

\* The two early returns after the poll is loaded, in the handler's order.
Rejection(doc, optionIds, t) ==
    IF Closed(doc, t) THEN "PollClosed"
    ELSE IF TooMany(doc, optionIds) THEN "CardinalityViolation"
    ELSE "none"

\* The request reaches the server.
VoteReceive(r, id, isArray, optionIds) ==
    /\ req[r].pc = "idle"
    /\ req' = [req EXCEPT ![r] = [IdleReq EXCEPT !.pc = "received", !.id = id,
                                   !.isArray = isArray, !.optionIds = optionIds]]
    /\ UNCHANGED <<polls, now, resp, acked>>

\* The handler up to the result of findById.
VoteLoad(r) ==
    /\ req[r].pc = "received"
    /\ IF SelectionInvalid(req[r])
       THEN Respond(r, 400, "InvalidRequest")
       ELSE IF req[r].id = MalformedId
       THEN \E s \in RejectionStatus : Respond(r, s, "CastError")
       ELSE IF req[r].id \notin 1..Len(polls)
       THEN Respond(r, 404, "NotFound")
       ELSE /\ req' = [req EXCEPT ![r].pc = "loaded", ![r].doc = <<polls[req[r].id]>>]
            /\ UNCHANGED resp
    /\ UNCHANGED <<polls, now, acked>>

\* The handler from the loaded poll to the call of save.
VoteCheck(r) ==
    /\ req[r].pc = "loaded"
    /\ LET doc == req[r].doc[1]
           options == Voted(doc.options, OptSet(req[r].optionIds))
           error == Rejection(doc, req[r].optionIds, now)
       IN  IF error # "none"
           THEN Respond(r, 400, error)
           ELSE /\ req' = [req EXCEPT ![r].pc = "saving",
                                      ![r].dirty = (options # doc.options),
                                      ![r].doc = <<[doc EXCEPT !.options = options]>>]
                /\ UNCHANGED resp
    /\ UNCHANGED <<polls, now, acked>>

\* SaveMatches without the version in the filter: the update always matches.
SaveMatchesAnyVersion(stored, doc) == TRUE

\* save() of a document whose options array was assigned (PollSchema keeps
\* Mongoose's default version key): the update sets options and increments
\* __v under the filter {_id, __v}, so it matches only while the stored
\* version is the loaded one; with no match save() rejects.
SaveMatches(stored, doc) == stored.v = doc.v

\* 1 when request r selects optId, else 0.
Selected(r, optId) == IF optId \in OptSet(req[r].optionIds) THEN 1 ELSE 0

\* save() and the response.  An assignment that leaves options deep-equal
\* may be sent as an update or skipped as no change: both are allowed here.
VoteSave(r) ==
    /\ req[r].pc = "saving"
    /\ LET id == req[r].id
           doc == req[r].doc[1]
           ok == /\ Respond(r, 200, "none")
                 /\ acked' = [o \in DOMAIN acked |->
                                IF \E i \in 1..Len(doc.options) : doc.options[i].id = o
                                THEN acked[o] + Selected(r, o) ELSE acked[o]]
       IN  \/ /\ ~req[r].dirty
              /\ ok
              /\ UNCHANGED polls
           \/ /\ SaveMatches(polls[id], doc)
              /\ polls' = [polls EXCEPT ![id].options = doc.options, ![id].v = @ + 1]
              /\ ok
           \/ /\ ~SaveMatches(polls[id], doc)
              /\ \E s \in RejectionStatus : Respond(r, s, "VersionError")
              /\ UNCHANGED <<polls, acked>>
    /\ UNCHANGED now

\* Time passes.
Tick ==
    /\ now < MaxTime
    /\ now' = now + 1
    /\ UNCHANGED <<polls, req, resp, acked>>

----------------------------------------------------------------------------
(* Request bodies *)

Hello == <<"H", "e", "l", "l", "o">>

Questions ==
    { JStr(<<>>), JStr(<<"H", "i">>), JStr(<<WS, WS, "H", "i", WS, WS>>),
      JStr(<<WS, "a", "b", "c", "d", WS>>), JStr(Hello), JStr(<<WS>> \o Hello \o <<WS>>),
      JNum, JNull }

OptionEntries ==
    { JStr(<<>>), JStr(<<WS, WS>>), JStr(<<"A">>), JStr(<<WS, "B", WS>>),
      JObjText(<<"C", WS>>), JObjNoText, JObjNumText, JNull }

SeqsUpTo(S, n) == UNION {[1..k -> S] : k \in 0..n}

OptionsInputs ==
    {[isArray |-> TRUE, items |-> s] : s \in SeqsUpTo(OptionEntries, MaxOptsIn)}
        \cup {[isArray |-> FALSE, items |-> <<>>]}

MultipleChoiceInputs == {"undefined", "true", "false", "nonEmptyString"}

ClosesAtInputs ==
    {[kind |-> "falsy", t |-> 0], [kind |-> "invalid", t |-> 0]}
        \cup {[kind |-> "date", t |-> t] : t \in Times}

CreateBodies ==
    [question : Questions, options : OptionsInputs,
     multipleChoice : MultipleChoiceInputs, closesAt : ClosesAtInputs]

\* The creation requests of the voting specification: one accepted option
\* list, single or multiple choice, closing or not, and one refused request.
AB == <<JStr(<<"A">>), JStr(<<WS, "B", WS>>)>>

FewCreateBodies ==
    {b \in CreateBodies :
        /\ b.question = JStr(Hello)
        /\ b.options.isArray
        /\ b.options.items \in {AB, <<JStr(<<"A">>), JStr(<<WS, WS>>)>>}
        /\ b.multipleChoice \in {"true", "undefined"}
        /\ b.closesAt.kind \in {"falsy", "date"}
        /\ b.closesAt.t < MaxTime
        /\ (b.options.items # AB => b.multipleChoice = "undefined" /\ b.closesAt.kind = "falsy")}

\* The optionIds a vote request on poll id may carry: arrays over the poll's
\* option _ids and an unknown identifier, or no array at all.
SelIds(id) ==
    {UnknownId} \cup
        (IF id \in 1..Len(polls) THEN {polls[id].options[i].id : i \in 1..Len(polls[id].options)}
         ELSE {})

AllOptIds == {OptId(p, i) : p \in 1..MaxPolls, i \in 1..MaxOptsIn}

----------------------------------------------------------------------------
(* Specifications *)

Init ==
    /\ polls = <<>>
    /\ now = 0
    /\ req = [r \in Requests |-> IdleReq]
    /\ resp = NoResp
    /\ acked = [o \in AllOptIds |-> 0]

Next ==
    \/ \E body \in FewCreateBodies : CreatePoll(body)
    \/ \E r \in Requests, id \in PollIdParams :
          \/ \E optionIds \in SeqsUpTo(SelIds(id), MaxSel) : VoteReceive(r, id, TRUE, optionIds)
          \/ VoteReceive(r, id, FALSE, <<>>)
    \/ \E r \in Requests : VoteLoad(r)
    \/ \E r \in Requests : VoteCheck(r)
    \/ \E r \in Requests : VoteSave(r)
    \/ Tick

Spec == Init /\ [][Next]_vars

\* One creation request, drawn from all of CreateBodies, on the empty collection.
NextCreate ==
    /\ resp = NoResp
    /\ \E body \in CreateBodies : CreatePoll(body)

SpecCreate == Init /\ [][NextCreate]_vars

----------------------------------------------------------------------------
(* Vocabulary of the properties *)

PollIds == 1..Len(polls)
OptIdx(p) == 1..Len(polls[p].options)

\* Request r is answered in this step.
Answered(r) == req[r].pc # "done" /\ req'[r].pc = "done"

\* The vote counters of all stored polls do not change in this step.
CountersUnchanged ==
    /\ Len(polls') = Len(polls)
    /\ \A p \in PollIds : \A i \in OptIdx(p) :
          polls'[p].options[i].votes = polls[p].options[i].votes

\* The poll's closesAt is set and lies before time t.
PastClose(doc, t) == Len(doc.closesAt) = 1 /\ doc.closesAt[1] < t

\* How often identifier o occurs in the array ids.
Occurrences(ids, o) == Cardinality({k \in 1..Len(ids) : ids[k] = o})

----------------------------------------------------------------------------
(* C1 *)

\* C1: no lost updates.  Every option's votes equals its initial 0 plus the
\* number of vote requests selecting it that were answered 200, whatever the
\* interleaving of the requests' load, increment and save steps.
C1_NoLostUpdates ==
    \A p \in PollIds : \A i \in OptIdx(p) :
        polls[p].options[i].votes = acked[polls[p].options[i].id]

\* Two requests selecting the same option were both answered 200.
C1_Witness ==
    /\ \A r \in Requests : req[r].pc = "done"
    /\ \E p \in PollIds : \E i \in OptIdx(p) :
          polls[p].options[i].votes = 2 /\ acked[polls[p].options[i].id] = 2

(* C2 *)

\* C2: once closesAt has passed, no step increases any option's votes of
\* that poll in the store.
C2_NoVotesAfterClose ==
    [][\A p \in PollIds :
          PastClose(polls[p], now) =>
              \A i \in OptIdx(p) : polls'[p].options[i].votes <= polls[p].options[i].votes]_vars

(* C3 *)

\* C3: a rejected vote request leaves every counter of every stored poll
\* unchanged; on a poll past its closesAt the request fails with PollClosed,
\* and on a single-choice poll (not closed) two or more identifiers fail with
\* the cardinality violation.
C3_RejectionChangesNothing ==
    [][\A r \in Requests :
          /\ Answered(r) /\ resp'.status # 200 => CountersUnchanged /\ polls' = polls
          /\ req[r].pc = "loaded" /\ req'[r] # req[r] =>
                LET doc == req[r].doc[1]
                IN  /\ PastClose(doc, now) =>
                          Answered(r) /\ resp'.status = 400 /\ resp'.error = "PollClosed"
                    /\ ~PastClose(doc, now) /\ ~doc.multipleChoice /\ Len(req[r].optionIds) >= 2 =>
                          Answered(r) /\ resp'.status = 400
                              /\ resp'.error = "CardinalityViolation"]_vars

\* A vote with two identifiers on a single-choice poll that holds votes was refused.
C3_Witness ==
    /\ resp.op = "vote" /\ resp.error = "CardinalityViolation"
    /\ Len(resp.body[1].optionIds) = 2
    /\ \E i \in OptIdx(resp.body[1].id) : polls[resp.body[1].id].options[i].votes > 0

(* C4 *)

\* C4: the checks run in the order InvalidRequest, PollClosed,
\* CardinalityViolation and the first failing one decides.  A selection that
\* is no non-empty array is refused before the store is read, whatever the
\* poll id names; two identifiers on a closed single-choice poll give
\* PollClosed.
C4_CheckOrder ==
    [][\A r \in Requests :
          /\ req[r].pc = "received" /\ req'[r] # req[r]
                /\ (~req[r].isArray \/ Len(req[r].optionIds) = 0) =>
                    /\ Answered(r) /\ req'[r].doc = <<>>
                    /\ resp'.status = 400 /\ resp'.error = "InvalidRequest"
          /\ req[r].pc = "received" /\ req'[r] # req[r]
                /\ req[r].isArray /\ Len(req[r].optionIds) > 0 /\ Answered(r) =>
                    resp'.error # "InvalidRequest"
          /\ req[r].pc = "loaded" /\ req'[r] # req[r] =>
                LET doc == req[r].doc[1]
                    closed == PastClose(doc, now)
                    many == ~doc.multipleChoice /\ Len(req[r].optionIds) >= 2
                IN  /\ closed => Answered(r) /\ resp'.error = "PollClosed"
                    /\ ~closed /\ many => Answered(r) /\ resp'.error = "CardinalityViolation"
                    /\ ~closed /\ ~many => ~Answered(r)]_vars

\* Two identifiers on a closed single-choice poll were answered PollClosed.
C4_Witness ==
    /\ resp.op = "vote" /\ resp.error = "PollClosed"
    /\ Len(resp.body[1].optionIds) = 2
    /\ ~polls[resp.body[1].id].multipleChoice

(* C5 *)

\* C5: a vote that passes all checks and is saved on the poll as it was
\* loaded is answered 200 and adds exactly 1 to every option of the target
\* poll whose identifier is in the requested set and nothing to any other
\* option; with only unknown identifiers it is answered 200 and changes no
\* counter.
C5_VoteApplied ==
    [][\A r \in Requests :
          req[r].pc = "saving" /\ req'[r] # req[r]
                /\ polls[req[r].id].v = req[r].doc[1].v =>
              /\ Answered(r) /\ resp'.status = 200
              /\ Len(polls') = Len(polls)
              /\ \A p \in PollIds : \A i \in OptIdx(p) :
                    polls'[p].options[i].votes =
                        polls[p].options[i].votes +
                            (IF p = req[r].id
                                  /\ Occurrences(req[r].optionIds, polls[p].options[i].id) > 0
                             THEN 1 ELSE 0)]_vars

\* A vote naming one option and an unknown identifier was answered 200 and
\* counted once, for that option alone.
C5_Witness ==
    /\ resp.op = "vote" /\ resp.status = 200
    /\ LET p == resp.body[1].id
           ids == resp.body[1].optionIds
       IN  /\ Occurrences(ids, UnknownId) = 1 /\ Len(ids) = 2
           /\ \E i, j \in OptIdx(p) :
                 /\ polls[p].options[i].votes = 1 /\ Occurrences(ids, polls[p].options[i].id) = 1
                 /\ polls[p].options[j].votes = 0

(* C6 *)

\* C6: every stored votes counter is a non-negative integer and is never
\* lower after a step than before it.
C6_VotesNeverDecrease ==
    /\ [](\A p \in PollIds : \A i \in OptIdx(p) : polls[p].options[i].votes \in Nat)
    /\ [][/\ Len(polls') >= Len(polls)
          /\ \A p \in PollIds : \A i \in OptIdx(p) :
                /\ i \in 1..Len(polls'[p].options)
                /\ polls'[p].options[i].votes >= polls[p].options[i].votes]_vars

\* A request that loaded the poll before another vote was saved came to its
\* save afterwards, and the counters stand.
C6_Witness ==
    /\ resp.op = "vote" /\ resp.error = "VersionError"
    /\ \E i \in OptIdx(resp.body[1].id) : polls[resp.body[1].id].options[i].votes = 1

(* C7 *)

\* What creation fixes of a poll: everything but the votes (and the version).
Fixed(poll) ==
    [question |-> poll.question, multipleChoice |-> poll.multipleChoice,
     closesAt |-> poll.closesAt,
     options |-> [i \in 1..Len(poll.options) |-> <<poll.options[i].id, poll.options[i].text>>]]

\* C7: every stored poll has at least 2 options, and no step changes an
\* existing poll's option identifiers, texts, order, question, multipleChoice
\* or closesAt.
C7_PollShapeFixed ==
    /\ [](\A p \in PollIds : Len(polls[p].options) >= 2)
    /\ [][/\ Len(polls') >= Len(polls)
          /\ \A p \in PollIds : Fixed(polls'[p]) = Fixed(polls[p])]_vars

\* A poll was voted on and saved twice.
C7_Witness ==
    \E p \in PollIds : polls[p].v = 2 /\ \E i \in OptIdx(p) : polls[p].options[i].votes > 0

(* C8, C9 *)

\* A creation request is answered in this step.
CreateAnswered == resp'.op = "create" /\ resp' # resp

\* The question of a creation request, a non-string counting as empty, trimmed.
TrimmedQuestion(body) ==
    Trim(IF body.question.t = "string" THEN body.question.s ELSE <<>>)

\* The normalized options of a creation request: each entry's string or text
\* field, trimmed, the empty ones dropped; a non-array counts as empty.
Normalized(body) ==
    NormOptions(IF body.options.isArray THEN body.options.items ELSE <<>>)

\* Every entry of options is a string, null, a number or an object whose
\* text is a string or absent, and closesAt is falsy or a date.
WellTyped(body) ==
    /\ \A i \in 1..Len(body.options.items) :
          ~(body.options.items[i].t = "object" /\ body.options.items[i].f = "number")
    /\ body.closesAt.kind # "invalid"

CreatedAsNormalized(body) ==
    /\ resp'.status = 201
    /\ Len(polls') = Len(polls) + 1
    /\ SubSeq(polls', 1, Len(polls)) = polls
    /\ resp'.doc = <<polls'[Len(polls')]>>
    /\ LET options == polls'[Len(polls')].options
       IN  /\ Len(options) = Len(Normalized(body))
           /\ \A i \in 1..Len(options) :
                 options[i].text = Normalized(body)[i] /\ options[i].votes = 0

\* C8: every creation request whose trimmed question has length >= 5 and
\* that has at least 2 options non-empty after normalization succeeds, adds
\* exactly one poll whose options are the normalized texts in input order,
\* each with votes = 0.
C8_ValidCreateSucceeds ==
    [][CreateAnswered =>
          LET body == resp'.body[1]
          IN  Len(TrimmedQuestion(body)) >= 5 /\ Len(Normalized(body)) >= 2 =>
                  CreatedAsNormalized(body)]_vars

\* C8 on the requests that are WellTyped (holds; not the claim as stated).
C8_WellTypedCreateSucceeds ==
    [][CreateAnswered =>
          LET body == resp'.body[1]
          IN  WellTyped(body) /\ Len(TrimmedQuestion(body)) >= 5
                  /\ Len(Normalized(body)) >= 2 =>
                  CreatedAsNormalized(body)]_vars

RefusedAsClaimed(body) ==
    /\ Len(TrimmedQuestion(body)) < 5 =>
          resp'.status = 400 /\ resp'.error = "InvalidQuestion"
    /\ Len(TrimmedQuestion(body)) >= 5 /\ Len(Normalized(body)) < 2 =>
          resp'.status = 400 /\ resp'.error = "InsufficientOptions"
    /\ resp'.status # 201 => polls' = polls

\* C9: a creation request fails with InvalidQuestion when the trimmed
\* question is shorter than 5, otherwise with InsufficientOptions when fewer
\* than 2 normalized options remain; in every failing case no poll is added.
C9_CreateRejections ==
    [][CreateAnswered => RefusedAsClaimed(resp'.body[1])]_vars

\* C9 on the requests that are WellTyped (holds; not the claim as stated).
C9_WellTypedCreateRejections ==
    [][CreateAnswered /\ WellTyped(resp'.body[1]) => RefusedAsClaimed(resp'.body[1])]_vars

(* C10 *)

\* C10: the cardinality check counts the entries of optionIds, the increment
\* uses the distinct identifiers: on a multiple-choice poll an option listed
\* twice or more gains exactly 1, on a single-choice poll (not closed) the
\* same identifier listed twice is refused and changes no counter.
C10_RepeatedIdentifiers ==
    [][\A r \in Requests :
          /\ req[r].pc = "saving" /\ Answered(r) /\ resp'.status = 200 =>
                \A i \in OptIdx(req[r].id) :
                    Occurrences(req[r].optionIds, polls[req[r].id].options[i].id) >= 2 =>
                        /\ polls[req[r].id].multipleChoice
                        /\ polls'[req[r].id].options[i].votes =
                               polls[req[r].id].options[i].votes + 1
          /\ req[r].pc = "loaded" /\ req'[r] # req[r]
                /\ ~req[r].doc[1].multipleChoice /\ ~PastClose(req[r].doc[1], now)
                /\ Len(req[r].optionIds) = 2
                /\ req[r].optionIds[1] = req[r].optionIds[2] =>
                    /\ Answered(r) /\ resp'.status = 400
                    /\ resp'.error = "CardinalityViolation"
                    /\ CountersUnchanged]_vars

\* A vote listing one option twice on a multiple-choice poll was answered
\* 200 and that option stands at 1.
C10_Witness ==
    /\ resp.op = "vote" /\ resp.status = 200
    /\ LET p == resp.body[1].id
           ids == resp.body[1].optionIds
       IN  /\ Len(ids) = 2 /\ ids[1] = ids[2]
           /\ polls[p].multipleChoice
           /\ \E i \in OptIdx(p) : polls[p].options[i].id = ids[1]
                                      /\ polls[p].options[i].votes = 1

====
